---- MODULE Spec2Model ----
(***************************************************************************)
(* Model of klingCreator's HTTP front end (src/kling/api.py): the          *)
(* create_video and get_video_status handlers and the background           *)
(* coroutine poll_and_notify, all running on one asyncio event loop; and   *)
(* of src/poll_webhook.py, which runs poll_and_notify for a given task id  *)
(* in a process of its own.                                                *)
(*                                                                         *)
(* The provider client (VideoGen), the image host and the webhook          *)
(* receiver are outside the program: every call to them returns any of     *)
(* the outcomes the call can have (a value, or a raised exception).        *)
(*                                                                         *)
(* Event loop: `running` names the coroutine that holds the loop.  A       *)
(* coroutine gives the loop up only at an `await`; the provider client's   *)
(* calls (fetch_metadata, fetch_video_url, get_video) are plain calls and  *)
(* keep it.                                                                *)
(***************************************************************************)
EXTENDS Integers, Sequences, FiniteSets, TLC

\* ---- bounds ------------------------------------------------------------
MaxRequests == 2      \* create-video requests (jobs) in one behaviour
MaxPending  == 2      \* PENDING answers one poll loop may receive
MaxWorks    == 2      \* works listed in one task's metadata

Requests == 1..MaxRequests

\* the poll loops: loop r is the one create_video schedules for request r, loop
\* CliId the one a run of poll_webhook.py starts
CliId == 0
LoopIds == {CliId} \cup Requests

None == "None"
NoTask == 0
Nobody == <<"none", 0>>

\* TaskStatus of the provider client (imported at api.py:11)
PENDING   == "PENDING"
COMPLETED == "COMPLETED"
FAILED    == "FAILED"
TaskStatus == {PENDING, COMPLETED, FAILED}

\* data.get("works", []) of a metadata answer: the workIds of the task's works, in
\* the provider's order.  A task's works have distinct ids, named here by position.
WorksLists == {[k \in 1..n |-> k] : n \in 0..MaxWorks}

\* the resource a successful fetch_video_url(work_id) returns
UrlOf(work_id) == <<"url", work_id>>

\* outcomes of the external calls
FetchOutcomes  == TaskStatus \cup {"raise"}           \* generator.fetch_metadata
LookupOutcomes == {"resource", "empty", "raise"}      \* generator.fetch_video_url
PostOutcomes   == {"2xx", "non2xx", "raise"}          \* client.post
GetOutcomes    == {"2xx", "non2xx", "raise"}          \* client.get
WriteOutcomes  == {"ok", "raise"}                     \* temp_file.write
SubmitOutcomes == {"task", "raise"}                   \* generator.get_video

\* str(e) of the exceptions the calls raise
MetadataError == "fetch_metadata failed"
LookupError   == "fetch_video_url failed"
PostError     == "webhook post failed"
DownloadError == "image download failed"
HttpStatusError == "image download status error"
WriteError    == "temp file write failed"
SubmitError   == "get_video failed"
RemoveError   == "os.remove failed"

\* the file system create_video works on
Tmp(r) == IF r = 1 THEN "tmp1" ELSE IF r = 2 THEN "tmp2" ELSE "tmp3"
LocalPaths == {"local", "readonly"}     \* paths a caller may pass as image_path
ReadOnlyPaths == {"readonly"}           \* files the server may read but not unlink

VARIABLES
    running,    \* the coroutine holding the event loop, or Nobody
    req,        \* req[r]: the create_video call serving request r
    loop,       \* loop[l]: the run of poll_and_notify of poll loop l
    st,         \* the get_video_status call in progress
    files,      \* paths that exist on disk
    nextTask    \* the provider's next task id

vars == <<running, req, loop, st, files, nextTask>>

\* ---- webhook payloads (api.py:51-55, 59-63, 70-74) ----------------------
\* variant: video_urls is one list for all the loops, the list of job 1
CompletedPayloadShared(task_id, video_urls) ==
    [task_id |-> task_id, status |-> "completed", video_urls |-> loop[1].video_urls]

CompletedPayload(task_id, video_urls) ==
    [task_id |-> task_id, status |-> "completed", video_urls |-> video_urls]

FailedPayload(task_id) ==
    [task_id |-> task_id, status |-> "failed", error |-> "Video generation failed"]

ErrorPayload(task_id, e) ==
    [task_id |-> task_id, status |-> "error", error |-> e]

\* ---- shared pieces of the two status translations ----------------------
\* variant: works are resolved for every status but PENDING
NeedsResolveNotPending(status) == status # PENDING

\* `if status == TaskStatus.COMPLETED:` (api.py:41 and api.py:144)
NeedsResolve(status) == status = COMPLETED

\* variant: the resource is put at the head of the list
LookupStepPrepend(video_urls, work_id, outcome) ==
    IF outcome = "resource" THEN <<UrlOf(work_id)>> \o video_urls ELSE video_urls

\* `if resource: video_urls.append(resource)` (api.py:48-49, 150-151)
LookupStep(video_urls, work_id, outcome) ==
    IF outcome = "resource" THEN Append(video_urls, UrlOf(work_id)) ELSE video_urls

\* variant: the member's name as it is, not lower-cased
LowerMissing(status) == status

\* status.name.lower() (api.py:157)
Lower(status) ==
    CASE status = PENDING   -> "pending"
      [] status = COMPLETED -> "completed"
      [] status = FAILED    -> "failed"

\* ---- exceptions of the request handlers ---------------------------------
\* an exception in flight: its class and the text str() is built from
NoExc == [type |-> "None", detail |-> <<>>]
Exc(msg) == [type |-> "Exception", detail |-> <<msg>>]

\* str(e): the message of a plain exception; "<status_code>: <detail>" of an
\* HTTPException
Str(e) == IF e.type = "HTTPException" THEN <<"400: ">> \o e.detail ELSE e.detail

\* HTTPException(status_code=400, detail=str(e))   (api.py:123, 136, 161)
HTTPException(e) == [type |-> "HTTPException", detail |-> Str(e)]

\* what the client receives for an HTTPException that leaves the handler
ClientError(e) == [kind |-> "error", status_code |-> 400, detail |-> e.detail]

\* ---- initial state -----------------------------------------------------
InitReq ==
    [pc |-> "none", image_url |-> None, image_path |-> None, webhook_url |-> None,
     tmp |-> None, task_id |-> NoTask, e |-> NoExc, response |-> [kind |-> "none"],
     downloadFailed |-> FALSE, submits |-> 0, accepted |-> NoTask,
     sent |-> [image_url |-> None, image_path |-> None],
     args |-> [image_url |-> None, image_path |-> None]]

InitLoop ==
    [pc |-> "idle", task_id |-> NoTask, webhook_url |-> None, status |-> None,
     works |-> <<>>, i |-> 1, video_urls |-> <<>>, outs |-> <<>>, e |-> None,
     mech |-> None, polls |-> 0, pendings |-> 0, sleeps |-> 0, lookups |-> 0, posts |-> <<>>]

InitSt ==
    [pc |-> "none", task_id |-> NoTask, status |-> None, works |-> <<>>, i |-> 1,
     video_urls |-> <<>>, outs |-> <<>>, fetches |-> 0, lookups |-> 0, response |-> [kind |-> "none"]]

Init ==
    /\ running = Nobody
    /\ req = [r \in Requests |-> InitReq]
    /\ loop = [l \in LoopIds |-> InitLoop]
    /\ st = InitSt
    /\ files = LocalPaths
    /\ nextTask = 1

\* ---- poll_and_notify (api.py:32-75) --------------------------------------
Me(kind, r) == <<kind, r>>

\* variant: no `elif status == TaskStatus.FAILED` branch, FAILED waits like PENDING
AfterFetchNoFailed(status) == IF NeedsResolve(status) THEN "resolve" ELSE "sleep"

\* where the loop goes after fetch_metadata answered `status` (api.py:41-67)
AfterFetch(status) ==
    IF NeedsResolve(status) THEN "resolve"
    ELSE IF status = FAILED THEN "post_failed"
    ELSE "sleep"

\* variant: no `break` after the post, the loop falls through to the sleep
AfterPostNoBreak(outcome) == IF outcome = "raise" THEN "post_error" ELSE "sleep"

\* after `await client.post(...)` of the completed / failed payload: `break`
\* (api.py:56, 64), or the handler of `except Exception` (api.py:69)
AfterPost(outcome) == IF outcome = "raise" THEN "post_error" ELSE "done"

\* variant: no `break` in the handler, the loop waits and polls again
AfterErrorPostRetry(outcome) == IF outcome = "raise" THEN "crashed" ELSE "sleep"

\* after the handler's own post: `break` (api.py:75), or the exception leaves
\* poll_and_notify
AfterErrorPost(outcome) == IF outcome = "raise" THEN "crashed" ELSE "done"

\* whether the loop may be handed one more PENDING answer (model bound)
MayPend(r) == loop[r].pendings < MaxPending

\* the loop's frame after fetch_metadata answered (api.py:39-43, 58, 66-69)
Fetched(l, outcome, works) ==
    IF outcome = "raise"
    THEN [l EXCEPT !.pc = "post_error", !.e = MetadataError,
                   !.mech = MetadataError, !.polls = @ + 1]
    ELSE [l EXCEPT !.pc = AfterFetch(outcome),
                   !.status = outcome,
                   !.polls = @ + 1,
                   !.pendings = IF outcome = PENDING THEN @ + 1 ELSE @,
                   !.works = IF AfterFetch(outcome) = "resolve" THEN works ELSE @,
                   !.video_urls = IF AfterFetch(outcome) = "resolve" THEN <<>> ELSE @,
                   !.i = 1]

\* the loop's frame after one fetch_video_url(work_id) (api.py:46-49, 69)
LookedUp(l, outcome) ==
    IF outcome = "raise"
    THEN [l EXCEPT !.pc = "post_error", !.e = LookupError,
                   !.mech = LookupError, !.lookups = @ + 1,
                   !.outs = Append(@, outcome)]
    ELSE [l EXCEPT !.video_urls = LookupStep(@, l.works[l.i], outcome),
                   !.i = @ + 1, !.lookups = @ + 1,
                   !.outs = Append(@, outcome)]

\* the loop's frame after the post of the completed / failed payload
\* (api.py:51-56, 59-64, 69)
Posted(l, outcome) ==
    [l EXCEPT !.pc = AfterPost(outcome),
              !.e = IF outcome = "raise" THEN PostError ELSE @,
              !.posts = Append(@, IF l.pc = "post_completed"
                                  THEN CompletedPayload(l.task_id, l.video_urls)
                                  ELSE FailedPayload(l.task_id))]

\* the loop's frame after the handler's post (api.py:69-75)
ErrorPosted(l, outcome) ==
    [l EXCEPT !.pc = AfterErrorPost(outcome),
              !.posts = Append(@, ErrorPayload(l.task_id, l.e))]

\* the loop's frame when the sleep is over (api.py:67, 36)
Slept(l) == [l EXCEPT !.pc = "poll", !.sleeps = @ + 1]

\* the background task starts: api.py:34-36
PollStart(r) ==
    /\ running = Nobody
    /\ loop[r].pc = "scheduled"
    /\ loop' = [loop EXCEPT ![r].pc = "poll"]
    /\ running' = Me("poll", r)
    /\ UNCHANGED <<req, st, files, nextTask>>

\* data, status = generator.fetch_metadata(task_id)   (api.py:39-43, 58, 66-69)
PollFetch(r) ==
    /\ running = Me("poll", r)
    /\ loop[r].pc = "poll"
    /\ \E outcome \in FetchOutcomes, works \in WorksLists :
         /\ outcome = PENDING => MayPend(r)
         /\ loop' = [loop EXCEPT ![r] = Fetched(loop[r], outcome, works)]
         /\ running' = IF Fetched(loop[r], outcome, works).pc = "resolve"
                       THEN Me("poll", r) ELSE Nobody
    /\ UNCHANGED <<req, st, files, nextTask>>

\* one turn of `for work in works:` (api.py:45-49), or the loop's end
PollResolve(r) ==
    /\ running = Me("poll", r)
    /\ loop[r].pc = "resolve"
    /\ IF loop[r].i > Len(loop[r].works)
       THEN /\ loop' = [loop EXCEPT ![r].pc = "post_completed"]
            /\ running' = Nobody
       ELSE \E outcome \in LookupOutcomes :
              /\ loop' = [loop EXCEPT ![r] = LookedUp(loop[r], outcome)]
              /\ running' = IF outcome = "raise" THEN Nobody ELSE running
    /\ UNCHANGED <<req, st, files, nextTask>>

\* await client.post(webhook_url, json={... "completed" / "failed" ...})
\* (api.py:51-56, 59-64)
PollPost(r) ==
    /\ running = Nobody
    /\ loop[r].pc \in {"post_completed", "post_failed"}
    /\ \E outcome \in PostOutcomes :
         loop' = [loop EXCEPT ![r] = Posted(loop[r], outcome)]
    /\ UNCHANGED <<running, req, st, files, nextTask>>

\* except Exception as e: await client.post(... "error" ...); break  (api.py:69-75)
PollPostError(r) ==
    /\ running = Nobody
    /\ loop[r].pc = "post_error"
    /\ \E outcome \in PostOutcomes :
         loop' = [loop EXCEPT ![r] = ErrorPosted(loop[r], outcome)]
    /\ UNCHANGED <<running, req, st, files, nextTask>>

\* await asyncio.sleep(5) returns and the loop goes round (api.py:67, 36)
PollSleep(r) ==
    /\ running = Nobody
    /\ loop[r].pc = "sleep"
    /\ loop' = [loop EXCEPT ![r] = Slept(loop[r])]
    /\ running' = Me("poll", r)
    /\ UNCHANGED <<req, st, files, nextTask>>

\* ---- poll_webhook.py: the same loop in a process of its own ---------------
\* The script's process has its own event loop with this one coroutine on it,
\* so its steps never wait for the server's event loop, and its calls to the
\* provider and to the webhook run at the same time as the server's.

\* asyncio.run(main(args.task_id, args.webhook_url))   (poll_webhook.py:6-24)
CliMain(task_id) ==
    /\ loop[CliId].pc = "idle"
    /\ loop' = [loop EXCEPT ![CliId] =
           [@ EXCEPT !.pc = "poll", !.task_id = task_id, !.webhook_url = "http://hook"]]
    /\ UNCHANGED <<running, req, st, files, nextTask>>

\* generator.fetch_metadata(task_id) is called: the query is with the provider
\* (api.py:39)
CliFetchCall ==
    /\ loop[CliId].pc = "poll"
    /\ loop' = [loop EXCEPT ![CliId].pc = "query"]
    /\ UNCHANGED <<running, req, st, files, nextTask>>

\* ... and answers   (api.py:39-43, 58, 66-69)
CliFetchReturn ==
    /\ loop[CliId].pc = "query"
    /\ \E outcome \in FetchOutcomes, works \in WorksLists :
         /\ outcome = PENDING => MayPend(CliId)
         /\ loop' = [loop EXCEPT ![CliId] = Fetched(loop[CliId], outcome, works)]
    /\ UNCHANGED <<running, req, st, files, nextTask>>

\* one turn of `for work in works:` (api.py:45-49), or the loop's end
CliResolve ==
    /\ loop[CliId].pc = "resolve"
    /\ IF loop[CliId].i > Len(loop[CliId].works)
       THEN loop' = [loop EXCEPT ![CliId].pc = "post_completed"]
       ELSE \E outcome \in LookupOutcomes :
              loop' = [loop EXCEPT ![CliId] = LookedUp(loop[CliId], outcome)]
    /\ UNCHANGED <<running, req, st, files, nextTask>>

\* await client.post(...) of the completed / failed payload (api.py:51-56, 59-64)
CliPost ==
    /\ loop[CliId].pc \in {"post_completed", "post_failed"}
    /\ \E outcome \in PostOutcomes :
         loop' = [loop EXCEPT ![CliId] = Posted(loop[CliId], outcome)]
    /\ UNCHANGED <<running, req, st, files, nextTask>>

\* the handler's post (api.py:69-75)
CliPostError ==
    /\ loop[CliId].pc = "post_error"
    /\ \E outcome \in PostOutcomes :
         loop' = [loop EXCEPT ![CliId] = ErrorPosted(loop[CliId], outcome)]
    /\ UNCHANGED <<running, req, st, files, nextTask>>

\* await asyncio.sleep(5)   (api.py:67, 36)
CliSleep ==
    /\ loop[CliId].pc = "sleep"
    /\ loop' = [loop EXCEPT ![CliId] = Slept(loop[CliId])]
    /\ UNCHANGED <<running, req, st, files, nextTask>>

\* ---- create_video (api.py:77-136) ----------------------------------------
\* VideoResponse(task_id=task_id)   (api.py:29-30, 133)
VideoResponse(task_id) == [kind |-> "ok", task_id |-> task_id]

\* variant: no raise_for_status(), only a transport error stops the request
DownloadRaisesOnlyTransport(outcome) == outcome = "raise"

\* `response = await client.get(...)` raised, or raise_for_status() did
\* (api.py:85-86)
DownloadRaises(outcome) == outcome # "2xx"

\* variant: request.image_url is not cleared after the download
PreprocessedKeepsUrl(image_url, temp_name) == [image_url |-> image_url, image_path |-> temp_name]

\* request.image_path = temp_file.name; request.image_url = None   (api.py:107-108)
Preprocessed(image_url, temp_name) == [image_url |-> None, image_path |-> temp_name]

\* the image arguments of generator.get_video(...)   (api.py:113-114)
SubmitArgs(image_url, image_path) == [image_url |-> None, image_path |-> image_path]

\* str(e) of what the download raised: a transport error from client.get, or
\* HTTPStatusError from raise_for_status()
DownloadErrorOf(outcome) == IF outcome = "raise" THEN DownloadError ELSE HttpStatusError

\* the guard of the clean-up: `if request.image_path and request.image_url is None`
\* (api.py:126)
ShouldRemove(image_path, image_url) == image_path # None /\ image_url = None

\* os.remove(path): unlinks an existing file the server may unlink, raises otherwise
RemoveRaises(path) == path \notin files \/ path \in ReadOnlyPaths

\* variant: the poll loop is scheduled whether or not there is a webhook_url
ShouldScheduleAlways(webhook_url) == TRUE

\* `if request.webhook_url:` (api.py:130)
ShouldSchedule(webhook_url) == webhook_url # None

\* the request arrives; up to `await client.get(...)` when there is an image_url,
\* else up to the submission   (api.py:78-85)
CreateVideo(r) ==
    /\ running = Nobody
    /\ req[r].pc = "none"
    /\ IF r = 1 THEN TRUE ELSE req[r - 1].pc # "none"    \* requests are numbered as they arrive
    /\ \E image_url \in {None, "http://img"},
          image_path \in {None} \cup LocalPaths,
          webhook_url \in {None, "http://hook"} :
         /\ req' = [req EXCEPT ![r] =
                [@ EXCEPT !.image_url = image_url, !.image_path = image_path,
                          !.webhook_url = webhook_url,
                          !.sent = [image_url |-> image_url, image_path |-> image_path],
                          !.pc = IF image_url # None THEN "download" ELSE "submit"]]
         /\ running' = IF image_url # None THEN Nobody ELSE Me("create", r)
    /\ UNCHANGED <<loop, st, files, nextTask>>

\* the download answers   (api.py:85-86, 135-136)
CreateDownload(r) ==
    /\ running = Nobody
    /\ req[r].pc = "download"
    /\ \E outcome \in GetOutcomes :
         IF DownloadRaises(outcome)
         THEN /\ req' = [req EXCEPT ![r] =
                     [@ EXCEPT !.pc = "returned", !.downloadFailed = outcome # "2xx",
                               !.e = Exc(DownloadErrorOf(outcome)),
                               !.response =
                                   ClientError(HTTPException(Exc(DownloadErrorOf(outcome))))]]
              /\ running' = Me("create", r)
         ELSE /\ req' = [req EXCEPT ![r] =
                     [@ EXCEPT !.pc = "tempfile", !.downloadFailed = outcome # "2xx"]]
              /\ running' = Me("create", r)
    /\ UNCHANGED <<loop, st, files, nextTask>>

\* with NamedTemporaryFile(suffix=extension, delete=False) as temp_file: ...
\* (api.py:105-108, 135-136)
CreateTempFile(r) ==
    /\ running = Me("create", r)
    /\ req[r].pc = "tempfile"
    /\ files' = files \cup {Tmp(r)}
    /\ \E outcome \in WriteOutcomes :
         IF outcome = "raise"
         THEN req' = [req EXCEPT ![r] =
                     [@ EXCEPT !.pc = "returned", !.tmp = Tmp(r), !.e = Exc(WriteError),
                               !.response = ClientError(HTTPException(Exc(WriteError)))]]
         ELSE req' = [req EXCEPT ![r] =
                     [@ EXCEPT !.pc = "submit", !.tmp = Tmp(r),
                               !.image_path = Preprocessed(req[r].image_url, Tmp(r)).image_path,
                               !.image_url = Preprocessed(req[r].image_url, Tmp(r)).image_url]]
    /\ UNCHANGED <<running, loop, st, nextTask>>

\* task_id = generator.get_video(...)   (api.py:110-123)
CreateSubmit(r) ==
    /\ running = Me("create", r)
    /\ req[r].pc = "submit"
    /\ \E outcome \in SubmitOutcomes :
         IF outcome = "raise"
         THEN /\ req' = [req EXCEPT ![r] =
                     [@ EXCEPT !.pc = "cleanup", !.submits = @ + 1,
                               !.args = SubmitArgs(req[r].image_url, req[r].image_path),
                               !.e = HTTPException(Exc(SubmitError))]]
              /\ nextTask' = nextTask
         ELSE /\ req' = [req EXCEPT ![r] =
                     [@ EXCEPT !.pc = "cleanup", !.submits = @ + 1,
                               !.args = SubmitArgs(req[r].image_url, req[r].image_path),
                               !.task_id = nextTask, !.accepted = nextTask]]
              /\ nextTask' = nextTask + 1
    /\ UNCHANGED <<running, loop, st, files>>

\* finally: ... os.remove(request.image_path)   (api.py:124-127, 135-136)
CreateCleanup(r) ==
    /\ running = Me("create", r)
    /\ req[r].pc = "cleanup"
    /\ LET remove == ShouldRemove(req[r].image_path, req[r].image_url)
           e == IF remove /\ RemoveRaises(req[r].image_path)
                THEN Exc(RemoveError) ELSE req[r].e
       IN  /\ files' = IF remove /\ ~RemoveRaises(req[r].image_path)
                       THEN files \ {req[r].image_path} ELSE files
           /\ IF e # NoExc
              THEN req' = [req EXCEPT ![r] =
                          [@ EXCEPT !.pc = "returned", !.e = e,
                                    !.response = ClientError(HTTPException(e))]]
              ELSE req' = [req EXCEPT ![r].pc = "schedule"]
    /\ UNCHANGED <<running, loop, st, nextTask>>

\* background_tasks.add_task(poll_and_notify, ...); return VideoResponse(...)
\* (api.py:129-133)
CreateReturn(r) ==
    /\ running = Me("create", r)
    /\ req[r].pc = "schedule"
    /\ loop' = IF ShouldSchedule(req[r].webhook_url)
               THEN [loop EXCEPT ![r] =
                        [@ EXCEPT !.pc = "scheduled", !.task_id = req[r].task_id,
                                  !.webhook_url = req[r].webhook_url]]
               ELSE loop
    /\ req' = [req EXCEPT ![r] =
           [@ EXCEPT !.pc = "returned", !.response = VideoResponse(req[r].task_id)]]
    /\ UNCHANGED <<running, st, files, nextTask>>

\* the response is sent and the call's frame is gone; what stays is what the
\* client got (the request it made, the response it received)
CreateClose(r) ==
    /\ running = Me("create", r)
    /\ req[r].pc = "returned"
    /\ req' = [req EXCEPT ![r] =
           [InitReq EXCEPT !.pc = "closed", !.webhook_url = req[r].webhook_url,
                           !.response = req[r].response]]
    /\ running' = Nobody
    /\ UNCHANGED <<loop, st, files, nextTask>>

\* ---- get_video_status (api.py:138-161) -----------------------------------
\* the dict returned at api.py:155-159
StatusResponse(task_id, status, video_urls) ==
    [kind |-> "ok", task_id |-> task_id, status |-> Lower(status),
     video_urls |-> video_urls]

\* the request arrives: data, status = generator.fetch_metadata(task_id)
\* (api.py:139-145, 152-161)
StatusFetch(t) ==
    /\ running = Nobody
    /\ st.pc = "none"
    /\ running' = Me("status", 0)
    /\ \E outcome \in FetchOutcomes, works \in WorksLists :
         IF outcome = "raise"
         THEN st' = [st EXCEPT !.pc = "returned", !.task_id = t, !.fetches = @ + 1,
                               !.response = ClientError(HTTPException(Exc(MetadataError)))]
         ELSE IF NeedsResolve(outcome)
         THEN st' = [st EXCEPT !.pc = "resolve", !.task_id = t, !.fetches = @ + 1,
                               !.status = outcome, !.works = works]
         ELSE st' = [st EXCEPT !.pc = "returned", !.task_id = t, !.fetches = @ + 1,
                               !.status = outcome,
                               !.response = StatusResponse(t, outcome, <<>>)]
    /\ UNCHANGED <<req, loop, files, nextTask>>

\* one turn of `for work in works:` (api.py:147-151), or the return after it
StatusResolve ==
    /\ running = Me("status", 0)
    /\ st.pc = "resolve"
    /\ IF st.i > Len(st.works)
       THEN st' = [st EXCEPT !.pc = "returned",
                             !.response = StatusResponse(st.task_id, st.status, st.video_urls)]
       ELSE \E outcome \in LookupOutcomes :
              IF outcome = "raise"
              THEN st' = [st EXCEPT !.pc = "returned", !.lookups = @ + 1,
                                    !.outs = Append(@, outcome),
                                    !.response = ClientError(HTTPException(Exc(LookupError)))]
              ELSE st' = [st EXCEPT !.video_urls = LookupStep(@, st.works[st.i], outcome),
                                    !.i = @ + 1, !.lookups = @ + 1,
                                    !.outs = Append(@, outcome)]
    /\ UNCHANGED <<running, req, loop, files, nextTask>>

\* the response is sent and the call's frame is gone
StatusDone ==
    /\ running = Me("status", 0)
    /\ st.pc = "returned"
    /\ st' = InitSt
    /\ running' = Nobody
    /\ UNCHANGED <<req, loop, files, nextTask>>

\* ---- the program ----------------------------------------------------------
\* the steps of create_video(r) and of the poll loop it schedules
JobNext(r) ==
    \/ CreateVideo(r)
    \/ CreateDownload(r)
    \/ CreateTempFile(r)
    \/ CreateSubmit(r)
    \/ CreateCleanup(r)
    \/ CreateReturn(r)
    \/ CreateClose(r)
    \/ PollStart(r)
    \/ PollFetch(r)
    \/ PollResolve(r)
    \/ PollPost(r)
    \/ PollPostError(r)
    \/ PollSleep(r)

NextJobs == \E r \in Requests : JobNext(r)

\* the steps of get_video_status
NextStatus ==
    \/ \E t \in Requests : StatusFetch(t)
    \/ StatusResolve
    \/ StatusDone

\* the steps of a run of poll_webhook.py for a task id the provider may have
\* issued
NextCli ==
    \/ \E task_id \in Requests : CliMain(task_id)
    \/ CliFetchCall
    \/ CliFetchReturn
    \/ CliResolve
    \/ CliPost
    \/ CliPostError
    \/ CliSleep

Next == NextJobs \/ NextStatus \/ NextCli

\* the server, and poll_webhook.py run next to it
Spec == Init /\ [][Next]_vars

\* get_video_status touches nothing but its own frame (st) and holds the event
\* loop from its first line to its return, so the jobs and the status queries
\* are also explored apart: two jobs side by side without status queries, and
\* status queries next to one job.
SpecJobs == Init /\ [][JobNext(1) \/ JobNext(2)]_vars

SpecQuery == Init /\ [][JobNext(1) \/ NextStatus]_vars

\* one job of the server, and a run of poll_webhook.py
SpecCli == Init /\ [][JobNext(1) \/ NextCli]_vars

\* One job on a fair event loop: a scheduled task is started, a call of the
\* provider client returns or raises, an awaited POST or sleep is resumed.
\* Nothing obliges a client to send a request, so create_video's steps carry
\* no fairness.
SpecFair ==
    /\ Init /\ [][JobNext(1)]_vars
    /\ WF_vars(PollStart(1)) /\ WF_vars(PollFetch(1)) /\ WF_vars(PollResolve(1))
    /\ WF_vars(PollPost(1)) /\ WF_vars(PollPostError(1)) /\ WF_vars(PollSleep(1))

\* ==== properties ==========================================================
PostsOf(r) == loop[r].posts
Ended(r) == loop[r].pc \in {"done", "crashed"}
CountStatus(posts, status) == Cardinality({k \in DOMAIN posts : posts[k].status = status})

\* C1: one run of poll_and_notify makes exactly one webhook POST attempt, whatever
\* the provider answers and whether the POST succeeds or fails: never a second
\* POST, and a run that has ended has made one.
C1_ExactlyOnePost ==
    \A r \in Requests :
        /\ Len(PostsOf(r)) <= 1
        /\ Ended(r) => Len(PostsOf(r)) = 1

\* C2: the status of every webhook POST reflects the cause the poll observed:
\* 'completed' only after COMPLETED, 'failed' only after FAILED, 'error' only
\* after the status translation raised and never for a task whose poll observed
\* COMPLETED or FAILED; nothing is posted while only PENDING was observed.
C2_StatusReflectsCause ==
    \A r \in Requests :
        /\ \A k \in DOMAIN PostsOf(r) :
             /\ PostsOf(r)[k].status = "completed" => loop[r].status = COMPLETED
             /\ PostsOf(r)[k].status = "failed" => loop[r].status = FAILED
             /\ PostsOf(r)[k].status = "error" =>
                    /\ loop[r].mech # None
                    /\ loop[r].status \notin {COMPLETED, FAILED}
        /\ (loop[r].status \in {None, PENDING} /\ loop[r].mech = None) => PostsOf(r) = <<>>

\* C3: once a poll observed COMPLETED or FAILED the loop calls fetch_metadata no
\* more; on FAILED it goes on to post {task_id, status 'failed', error 'Video
\* generation failed'} as its first post, without sleeping or polling again.
C3_TerminalStopsPolling ==
    /\ [][\A r \in Requests :
            loop[r].status \in {COMPLETED, FAILED} => loop'[r].polls = loop[r].polls]_vars
    /\ [](\A r \in Requests :
            loop[r].status = FAILED =>
                \/ loop[r].pc = "post_failed" /\ PostsOf(r) = <<>>
                \/ /\ loop[r].pc \in {"post_error", "done", "crashed"}
                   /\ PostsOf(r) # <<>>
                   /\ PostsOf(r)[1] = FailedPayload(loop[r].task_id))

C3_Witness ==
    \E r \in Requests :
        /\ loop[r].status = FAILED
        /\ loop[r].pc = "done"
        /\ loop[r].pendings >= 1
        /\ PostsOf(r) = <<FailedPayload(loop[r].task_id)>>

\* C4: a mechanism failure raised during a poll attempt (the k-th, after any
\* number of PENDING polls) makes the loop post {task_id, status 'error', error
\* <its description>} and stop: no poll follows the failure.
C4_MechanismFailureStops ==
    /\ [][\A r \in Requests :
            loop[r].mech # None => loop'[r].polls = loop[r].polls]_vars
    /\ [](\A r \in Requests :
            loop[r].mech # None =>
                \/ loop[r].pc = "post_error" /\ loop[r].e = loop[r].mech /\ PostsOf(r) = <<>>
                \/ /\ Ended(r)
                   /\ PostsOf(r) = <<ErrorPayload(loop[r].task_id, loop[r].mech)>>)

C4_Witness ==
    \E r \in Requests :
        /\ loop[r].mech = MetadataError
        /\ loop[r].polls = MaxPending + 1
        /\ loop[r].pc = "done"
        /\ PostsOf(r) = <<ErrorPayload(loop[r].task_id, MetadataError)>>

\* C5: n PENDING answers and then COMPLETED with resolved URLs: the loop has
\* polled n + 1 times and slept n times (once after each PENDING poll, never
\* before the first poll, never after the terminal one) and posts {status
\* 'completed', video_urls <the resolved URLs>} exactly once.
C5_PendingThenCompleted ==
    \A r \in Requests :
        /\ loop[r].sleeps = IF loop[r].pc = "sleep" /\ loop[r].pendings > 0
                            THEN loop[r].pendings - 1 ELSE loop[r].pendings
        /\ loop[r].polls = 0 => loop[r].sleeps = 0
        /\ (loop[r].status = COMPLETED /\ loop[r].mech = None) =>
              /\ loop[r].polls = loop[r].pendings + 1
              /\ loop[r].sleeps = loop[r].pendings
              /\ loop[r].pc \in {"resolve", "post_completed", "post_error", "done", "crashed"}
              /\ loop[r].pc \in {"resolve", "post_completed"} => PostsOf(r) = <<>>
              /\ loop[r].pc \in {"post_error", "done", "crashed"} =>
                    /\ PostsOf(r) # <<>>
                    /\ PostsOf(r)[1] = CompletedPayload(loop[r].task_id, loop[r].video_urls)
                    /\ CountStatus(PostsOf(r), "completed") = 1

C5_Witness ==
    \E r \in Requests :
        /\ loop[r].status = COMPLETED
        /\ loop[r].pendings = MaxPending
        /\ loop[r].sleeps = MaxPending
        /\ loop[r].pc = "done"
        /\ Len(loop[r].video_urls) = MaxWorks
        /\ PostsOf(r) = <<CompletedPayload(loop[r].task_id, loop[r].video_urls)>>

\* C6: a temporary file create_video created for a downloaded image no longer
\* exists once create_video returns, on every exit path after its creation
\* (submission succeeded, submission raised, a failure before the submission).
C6_TempFileRemoved ==
    \A r \in Requests :
        (req[r].pc = "returned" /\ req[r].tmp # None) => req[r].tmp \notin files

\* C7: create_video ends either with a response carrying the task id or with a
\* client error carrying the failure description; after a failed download
\* get_video is never called; after any preprocessing or submission error no
\* task id is returned and no poll loop is scheduled.
Failures == {DownloadError, HttpStatusError, WriteError, SubmitError, RemoveError}

C7_CreateOutcomes ==
    \A r \in Requests :
        /\ req[r].pc \in {"returned", "closed"} <=> req[r].response.kind \in {"ok", "error"}
        /\ req[r].response.kind = "ok" =>
              /\ DOMAIN req[r].response = {"kind", "task_id"}
              /\ req[r].response.task_id # NoTask
        /\ req[r].response.kind = "error" =>
              /\ DOMAIN req[r].response = {"kind", "status_code", "detail"}
              /\ req[r].response.detail # <<>>
              /\ loop[r].pc = "idle"
        /\ req[r].downloadFailed => req[r].submits = 0 /\ req[r].accepted = NoTask
        /\ req[r].pc = "returned" =>
              IF req[r].e # NoExc
              THEN /\ req[r].response.kind = "error"
                   /\ req[r].response.detail = Str(req[r].e)
                   /\ \E k \in DOMAIN req[r].response.detail :
                         req[r].response.detail[k] \in Failures
              ELSE req[r].response = VideoResponse(req[r].accepted)

C7_Witness ==
    \E r \in Requests :
        /\ req[r].pc = "returned"
        /\ req[r].downloadFailed
        /\ req[r].webhook_url # None
        /\ req[r].response.kind = "error"
        /\ req[r].response.detail = <<HttpStatusError>>
        /\ req[r].submits = 0

\* C8: whenever get_video returned a task id for a request carrying a
\* webhook_url, create_video schedules poll_and_notify for that task id and
\* returns that task id, the loop not having started.
C8_AcceptedIsScheduled ==
    \A r \in Requests :
        (req[r].pc = "returned" /\ req[r].accepted # NoTask /\ req[r].webhook_url # None) =>
            /\ req[r].response = VideoResponse(req[r].accepted)
            /\ loop[r].pc = "scheduled"
            /\ loop[r].task_id = req[r].accepted

\* C9: for a request without webhook_url create_video schedules no poll loop and
\* no webhook POST is ever made for that job.
C9_NoWebhookNoPost ==
    \A r \in Requests :
        req[r].webhook_url = None =>
            /\ loop[r].pc = "idle"
            /\ loop[r].polls = 0
            /\ PostsOf(r) = <<>>

C9_Witness ==
    \E r \in Requests :
        /\ req[r].pc = "closed"
        /\ req[r].webhook_url = None
        /\ req[r].response = VideoResponse(1)
        /\ nextTask = 2

\* C10: in every get_video_status response and every webhook payload the URL
\* list is non-empty only when the observed state is COMPLETED; on PENDING or
\* FAILED the list is empty and fetch_video_url is not called.
C10_UrlsOnlyWhenCompleted ==
    /\ st.response.kind = "ok" =>
          (st.response.video_urls # <<>> =>
              st.status = COMPLETED /\ st.response.status = "completed")
    /\ st.status \in {PENDING, FAILED} =>
          /\ st.lookups = 0
          /\ st.response.kind = "ok" /\ st.response.video_urls = <<>>
    /\ \A r \in Requests :
          /\ loop[r].status \in {None, PENDING, FAILED} => loop[r].lookups = 0
          /\ \A k \in DOMAIN PostsOf(r) :
                /\ "video_urls" \in DOMAIN PostsOf(r)[k] <=> PostsOf(r)[k].status = "completed"
                /\ PostsOf(r)[k].status = "completed" =>
                      (PostsOf(r)[k].video_urls # <<>> => loop[r].status = COMPLETED)

C10_Witness ==
    /\ st.pc = "returned"
    /\ st.status = FAILED
    /\ st.response.kind = "ok"
    /\ \E r \in Requests :
          /\ loop[r].pc = "done"
          /\ PostsOf(r) # <<>>
          /\ PostsOf(r)[1].status = "completed"
          /\ Len(PostsOf(r)[1].video_urls) = MaxWorks

\* urls is the list of the resources of the works whose lookup (outs[k] is the
\* outcome of the lookup of works[k]) returned one, in the order of works
IsResolvedList(urls, works, outs) ==
    LET kept == {k \in 1..Len(outs) : outs[k] = "resource"}
    IN  /\ Len(outs) <= Len(works)
        /\ Len(urls) = Cardinality(kept)
        /\ \A j \in 1..Len(urls) :
              \E k \in kept : /\ urls[j] = UrlOf(works[k])
                              /\ Cardinality({m \in kept : m < k}) = j - 1

\* C11: when the provider reports COMPLETED and the lookup of one work fails,
\* only that work is left out: get_video_status still answers 'completed' and
\* poll_and_notify still posts 'completed' first, each with the URLs of the
\* works whose lookup returned a resource, every work having been looked up.
C11_LookupFailureOmitsOnlyThatWork ==
    /\ (st.pc = "returned" /\ st.status = COMPLETED) =>
          /\ st.response.kind = "ok"
          /\ st.response.status = "completed"
          /\ Len(st.outs) = Len(st.works)
          /\ IsResolvedList(st.response.video_urls, st.works, st.outs)
    /\ \A r \in Requests :
          (loop[r].status = COMPLETED /\ PostsOf(r) # <<>>) =>
              /\ PostsOf(r)[1].status = "completed"
              /\ Len(loop[r].outs) = Len(loop[r].works)
              /\ IsResolvedList(PostsOf(r)[1].video_urls, loop[r].works, loop[r].outs)

\* C12: for a COMPLETED task the resolved URL list is the subsequence of the
\* provider's works, in the provider's order, of the works whose lookup returned
\* a resource: one lookup per work, no duplicate, no reordering, a work without
\* resource skipped; that list is what the answer and the payload carry.
C12_ResolvedListIsSubsequence ==
    /\ st.status = COMPLETED =>
          /\ st.lookups = Len(st.outs)
          /\ IsResolvedList(st.video_urls, st.works, st.outs)
          /\ \A j, k \in DOMAIN st.video_urls : j # k => st.video_urls[j] # st.video_urls[k]
          /\ st.response.kind = "ok" =>
                /\ Len(st.outs) = Len(st.works)
                /\ st.response.video_urls = st.video_urls
    /\ \A r \in Requests :
          loop[r].status = COMPLETED =>
              /\ loop[r].lookups = Len(loop[r].outs)
              /\ IsResolvedList(loop[r].video_urls, loop[r].works, loop[r].outs)
              /\ \A j, k \in DOMAIN loop[r].video_urls :
                    j # k => loop[r].video_urls[j] # loop[r].video_urls[k]
              /\ (PostsOf(r) # <<>> /\ loop[r].mech = None) =>
                    /\ Len(loop[r].outs) = Len(loop[r].works)
                    /\ PostsOf(r)[1].video_urls = loop[r].video_urls

C12_Witness ==
    /\ st.pc = "returned"
    /\ st.response.kind = "ok"
    /\ Len(st.works) = MaxWorks
    /\ Len(st.outs) = MaxWorks
    /\ st.outs[1] = "empty"
    /\ \A k \in 2..MaxWorks : st.outs[k] = "resource"
    /\ st.response.video_urls = [j \in 1..(MaxWorks - 1) |-> UrlOf(st.works[j + 1])]
    /\ loop[1].pc = "done"
    /\ Len(loop[1].works) = MaxWorks
    /\ Len(loop[1].outs) = MaxWorks
    /\ loop[1].outs[MaxWorks] = "empty"
    /\ PostsOf(1)[1].video_urls = [j \in 1..(MaxWorks - 1) |-> UrlOf(loop[1].works[j])]

\* C13: get_video_status calls fetch_metadata exactly once per request and never
\* again; an answer with a status carries 'pending', 'completed' or 'failed' as
\* the provider reported PENDING, COMPLETED or FAILED, and it is what the request
\* gets whenever the translation got through; when fetch_metadata raised the
\* answer is a client error (400) without status.
C13_OneQueryPerStatusRequest ==
    /\ st.fetches = IF st.pc = "none" THEN 0 ELSE 1
    /\ st.response.kind = "ok" =>
          /\ st.pc = "returned"
          /\ st.response.task_id = st.task_id
          /\ \/ st.status = PENDING /\ st.response.status = "pending"
             \/ st.status = COMPLETED /\ st.response.status = "completed"
             \/ st.status = FAILED /\ st.response.status = "failed"
    /\ (st.pc = "returned" /\ st.status \in TaskStatus
           /\ \A k \in DOMAIN st.outs : st.outs[k] # "raise") => st.response.kind = "ok"
    /\ (st.pc = "returned" /\ st.status = None) =>
          /\ st.response.kind = "error"
          /\ st.response.status_code = 400
          /\ st.response.detail = <<MetadataError>>
          /\ "status" \notin DOMAIN st.response

C13_Witness ==
    /\ st.pc = "returned"
    /\ st.fetches = 1
    /\ st.status = None
    /\ st.response.kind = "error"
    /\ st.task_id = loop[1].task_id
    /\ loop[1].pc = "sleep"

\* C14: for a request sent with image_url (with or without image_path), when
\* get_video is called request.image_url is empty and request.image_path names
\* the file the download was written to, which exists; get_video is handed that
\* path and never a URL.
C14_ProviderNeverHandedUrl ==
    \A r \in Requests :
        /\ (req[r].pc = "submit" /\ req[r].sent.image_url # None) =>
              /\ req[r].image_url = None
              /\ req[r].image_path = Tmp(r)
              /\ req[r].image_path # req[r].sent.image_path
              /\ Tmp(r) \in files
        /\ req[r].submits > 0 =>
              /\ req[r].args.image_url = None
              /\ req[r].sent.image_url # None => req[r].args.image_path = Tmp(r)

C14_Witness ==
    \E r \in Requests :
        /\ req[r].pc = "cleanup"
        /\ req[r].submits = 1
        /\ req[r].sent = [image_url |-> "http://img", image_path |-> "local"]
        /\ req[r].args = [image_url |-> None, image_path |-> Tmp(r)]

\* C15: create_video deletes no file it did not create: after a request with a
\* caller-supplied image_path and no image_url has returned, with a task id or
\* with an error, the file at that path still exists.
C15_CallerFileKept ==
    \A r \in Requests :
        (req[r].pc = "returned" /\ req[r].sent.image_url = None
            /\ req[r].sent.image_path # None) => req[r].sent.image_path \in files

\* C16: on a fair event loop, once the provider reported COMPLETED or FAILED or a
\* poll raised, poll_and_notify ends normally (by `break`) after its post, whether
\* the post got through or not; while only PENDING was reported it neither ends
\* nor posts.
C16_TerminatesNormally ==
    /\ \A r \in Requests :
          (loop[r].status \in {COMPLETED, FAILED} \/ loop[r].mech # None) ~> (loop[r].pc = "done")
    /\ [](\A r \in Requests :
            (loop[r].status \in {None, PENDING} /\ loop[r].mech = None) =>
                ~Ended(r) /\ PostsOf(r) = <<>>)

\* job r is inside a network call or the sleep between polls: the image download,
\* the submission, a status query, a sub-result lookup, a webhook POST
InNetworkCall(r) ==
    \/ req[r].pc \in {"download", "submit"}
    \/ loop[r].pc \in {"poll", "post_completed", "post_failed", "post_error", "sleep"}
    \/ loop[r].pc = "resolve" /\ loop[r].i <= Len(loop[r].works)

\* job q has a step to take as soon as the event loop lets it: its request is
\* arriving, or an await of its own has been answered
HasWork(q) ==
    \/ req[q].pc = "none" /\ (IF q = 1 THEN TRUE ELSE req[q - 1].pc # "none")
    \/ req[q].pc = "download"
    \/ loop[q].pc \in {"scheduled", "post_completed", "post_failed", "post_error", "sleep"}

\* C18: every network call made for a job (submission, status query, sub-result
\* lookup, webhook POST) and the sleep between polls is a suspension point: while
\* one job waits in any of them, another job's request or poll loop that has a
\* step to take can take it.
C18_NetworkCallsYield ==
    \A r, q \in Requests :
        (r # q /\ InNetworkCall(r) /\ HasWork(q)) => ENABLED JobNext(q)

\* what loop r posts first, from the answers r itself got from the provider
FirstPostAlone(r, payload) ==
    IF loop[r].mech # None THEN payload = ErrorPayload(loop[r].task_id, loop[r].mech)
    ELSE IF loop[r].status = FAILED THEN payload = FailedPayload(loop[r].task_id)
    ELSE /\ loop[r].status = COMPLETED
         /\ DOMAIN payload = {"task_id", "status", "video_urls"}
         /\ payload.task_id = loop[r].task_id
         /\ payload.status = "completed"
         /\ Len(loop[r].outs) = Len(loop[r].works)
         /\ IsResolvedList(payload.video_urls, loop[r].works, loop[r].outs)

\* C19: poll loops of different task ids share no state: a step of one loop
\* changes nothing of another loop, and in every interleaving each loop's polls
\* and the payloads it posts are those its own task id and the provider's answers
\* to its own calls determine, as when it runs alone.
C19_LoopsIndependent ==
    /\ [][\A r, q \in Requests :
            (r # q /\ loop'[r] # loop[r]) => loop'[q] = loop[q]]_vars
    /\ [](\A r, q \in Requests :
            (r # q /\ loop[r].pc # "idle" /\ loop[q].pc # "idle") =>
                loop[r].task_id # loop[q].task_id)
    /\ [](\A r \in Requests :
            /\ loop[r].pc # "idle" => loop[r].task_id = req[r].response.task_id
            /\ loop[r].polls = loop[r].pendings +
                  (IF loop[r].status \in {COMPLETED, FAILED} \/ loop[r].mech = MetadataError
                   THEN 1 ELSE 0)
            /\ Len(PostsOf(r)) <= 2
            /\ Len(PostsOf(r)) >= 1 => FirstPostAlone(r, PostsOf(r)[1])
            /\ Len(PostsOf(r)) = 2 =>
                  /\ loop[r].mech = None
                  /\ PostsOf(r)[2] = ErrorPayload(loop[r].task_id, PostError))

C19_Witness ==
    /\ loop[1].pc = "done" /\ loop[2].pc = "done"
    /\ loop[1].task_id = 1 /\ loop[2].task_id = 2
    /\ loop[1].pendings >= 1 /\ loop[2].pendings >= 1
    /\ loop[1].video_urls = <<>>
    /\ PostsOf(1) = <<CompletedPayload(1, <<>>)>>
    /\ Len(loop[2].video_urls) = MaxWorks
    /\ PostsOf(2) = <<CompletedPayload(2, loop[2].video_urls)>>

\* C17: the polls of one task id are strictly sequential, however its poll loops
\* were started (by create_video, by poll_webhook.py): no status query for a
\* task id is made while another one for that task id is with the provider, and
\* a loop sleeps only after a poll that is over, lookups included.
C17_PollsSequentialPerTask ==
    /\ [][\A r \in Requests :
            (loop[CliId].pc = "query" /\ loop[CliId].task_id = loop[r].task_id) =>
                loop'[r].polls = loop[r].polls]_vars
    /\ [](\A l \in LoopIds :
            loop[l].pc = "sleep" =>
                /\ loop[l].status = PENDING
                /\ loop[l].lookups = 0
                /\ loop[l].polls = loop[l].sleeps + 1)

====
